---- MODULE Spec2Model ----
(***************************************************************************)
(* Model of src/benchmark.py: the periodic resource sampler                *)
(* (ScheduledPeriodicTimer / DaemonTimer / BenchmarkTimer), the record it  *)
(* fills (BenchmarkRecord) and the context manager benchmarked().          *)
(*                                                                         *)
(* Units.  The clock `now` counts half seconds (the value of               *)
(* BENCHMARK_INTERVAL_SHORT), so two reads of time.time() with no Advance  *)
(* step between them return the same value.  cpu_seconds is kept in units  *)
(* of 1/200 s: a process at `pct` percent over `dt` half seconds adds      *)
(* pct/100 * dt/2 s = pct * dt units.  Memory and I/O are bytes at the     *)
(* provider and megabytes in the record.  An optional value is <<>> (None) *)
(* or <<v>>.                                                               *)
(*                                                                         *)
(* Specifications.  Spec: benchmarked() with a record it creates.          *)
(* SpecReused: benchmarked(benchmark_record=r) with r left by an earlier   *)
(* observation.  SpecStartTwice: the scheduler held by a caller that may   *)
(* call start() a second time.  FairSpec: Spec with the timer threads and  *)
(* the clock scheduled fairly.                                             *)
(***************************************************************************)
EXTENDS Integers, Sequences, FiniteSets, TLC

\* ------------------------------------------------------------------ bounds
\* Executions of work() the model follows (the first one is start()'s).
MaxTicks == 2
\* Last clock value (half seconds).
MaxTime == MaxTicks + 1

\* --------------------------------------------------------------- constants
BENCHMARK_INTERVAL_SHORT == 1

MiB == 1024 * 1024

\* ------------------------------------------------------------ input domains
\* The observed root process and one child.
MainPid == 1

ChildPid == 2

Pids == {MainPid, ChildPid}

\* What chain((main,), main.children(recursive=True)) yields; <<>> stands for
\* children() raising psutil.Error.
Enumerations == {<< >>, <<MainPid>>, <<MainPid, ChildPid>>}

\* What a process that is alive answers: cpu_percent(), memory_full_info()
\* and io_counters(), where io is <<>> for NotImplementedError and else
\* <<read_bytes, write_bytes>>.
OkAnswers ==
    { [kind |-> "ok", pct |-> 50,
       mem |-> [rss |-> 2 * MiB, vms |-> 4 * MiB, uss |-> 1 * MiB, pss |-> 1 * MiB],
       io |-> <<1 * MiB, 2 * MiB>>],
      [kind |-> "ok", pct |-> 0,
       mem |-> [rss |-> 1 * MiB, vms |-> 4 * MiB, uss |-> 1 * MiB, pss |-> 0],
       io |-> << >>] }

\* The exceptions a per-process query can raise.
ProcFailures == {"NoSuchProcess", "psutil.Error", "AttributeError"}

ProcAnswers == OkAnswers \cup [kind : ProcFailures]

\* The child is busy and answers, has exited since the enumeration, or may
\* not be queried.
ChildAnswers ==
    {a \in ProcAnswers :
        a.kind \in {"NoSuchProcess", "psutil.Error"} \/ (a.kind = "ok" /\ a.pct > 0)}

\* The answers of the processes of one enumeration.
AnswersOf(enum) ==
    {ans \in [{enum[i] : i \in 1..Len(enum)} -> ProcAnswers] :
        ChildPid \in DOMAIN ans => ans[ChildPid] \in ChildAnswers}

\* GPUtil.getGPUs()[gpu]: <<>> is IndexError, else <<load in 1/100, memoryUsed>>.
GpuAnswers == { << >>, <<0, 0>>, <<55, 2048>> }

\* The gpus argument: none, or device 0.
GpuConfigs == { << >>, <<0>> }

Intervals == {1, 2}

\* ----------------------------------------------------------------- options
None == << >>

Some(v) == <<v>>

\* Python's `x or 0` for an optional number.
OrZero(x) == IF x = None THEN 0 ELSE x[1]

Max(a, b) == IF a >= b THEN a ELSE b

\* Python's `x or 0` for a number (a list entry).
NumOrZero(x) == IF x = 0 THEN 0 ELSE x

\* ------------------------------------------------------------------- state
VARIABLES
    now,            \* time.time(), in half seconds
    pid_opt,        \* benchmarked(pid=...): FALSE is the opt-out pid=False
    gpus,           \* benchmarked(gpus=...)
    rt_path,        \* benchmarked(rt_path=...) given?
    interval,       \* ScheduledPeriodicTimer._interval
    pc,             \* where the thread that called benchmarked() is
    wrapper_start,  \* benchmarked's local start_time
    end_time,       \* benchmarked, line 377: what time.time() returned
    start_time,     \* ScheduledPeriodicTimer.start_time
    starts,         \* calls of ScheduledPeriodicTimer.start() so far
    bench_record,   \* the BenchmarkRecord
    times_called,   \* ScheduledPeriodicTimer._times_called
    stopped,        \* ScheduledPeriodicTimer._stopped
    timers,         \* every DaemonTimer created, in order of creation
    timer,          \* ScheduledPeriodicTimer._timer: an index of timers, 0 is None
    procs,          \* BenchmarkTimer.procs: pid -> handle, 0 is absent
    sink,           \* the lines of the file at rt_path
    workCount,      \* history: executions of work() begun
    lastTick,       \* history: what the last execution of work() met
    ioUnsupported   \* history: io_counters() has raised NotImplementedError

vars ==
    << now, pid_opt, gpus, rt_path, interval, pc, wrapper_start, end_time,
       start_time, starts, bench_record, times_called, stopped, timers, timer,
       procs, sink, workCount, lastTick, ioUnsupported >>

\* --------------------------------------------------------- BenchmarkRecord
\* BenchmarkRecord(): every argument defaulted.
NewRecord ==
    [ running_time |-> 0,
      max_rss |-> None, rss |-> None,
      max_vms |-> None, vms |-> None,
      max_uss |-> None, uss |-> None,
      max_pss |-> None, pss |-> None,
      io_in |-> None, io_out |-> None,
      cpu_seconds |-> 0,
      first_time |-> None, prev_time |-> None,
      max_gpu_load |-> None, gpu_load |-> None,
      max_gpu_mem |-> None, gpu_mem |-> None ]

\* A record an earlier observation has sampled into and left: its last tick
\* was at clock value 1, where the model's clock starts.
SampledRecord ==
    [ NewRecord EXCEPT
        !.running_time = 1,
        !.max_rss = Some(2), !.rss = Some(1),
        !.max_vms = Some(4), !.vms = Some(4),
        !.max_uss = Some(1), !.uss = Some(1),
        !.max_pss = Some(1), !.pss = Some(0),
        !.io_in = Some(1), !.io_out = Some(2),
        !.cpu_seconds = 50,
        !.prev_time = Some(1) ]

\* [-1] * len(gpus)
Sentinels(n) == [i \in 1..n |-> -1]

\* BenchmarkTimer.__init__ with gpus: the four GPU lists are pre-sized.
InitGpuLists(r, g) ==
    IF Len(g) > 0
    THEN [r EXCEPT !.max_gpu_load = Sentinels(Len(g)),
                   !.max_gpu_mem = Sentinels(Len(g)),
                   !.gpu_load = Sentinels(Len(g)),
                   !.gpu_mem = Sentinels(Len(g))]
    ELSE r

\* bytes to megabytes: x /= 1024 * 1024
ToMB(x) == x \div MiB

\* ------------------------------------------------- BenchmarkTimer (sampling)
\* The locals of _update_record before the loop (lines 274-279), with the
\* cache and the exception that ended the loop, if any.
LoopStart(cache) ==
    [ rss |-> 0, vms |-> 0, uss |-> 0, pss |-> 0,
      io_in |-> 0, io_out |-> 0, check_io |-> TRUE,
      cpu_seconds |-> 0, procs |-> cache, raised |-> "none" ]

\* Mutant of SetDefault: self.procs[proc.pid] = proc, the newest handle is
\* kept.
SetLatest(cache, p, h) == [cache EXCEPT ![p] = h]

\* self.procs.setdefault(proc.pid, proc): the handle kept is the first one
\* stored; handle h is the Process object made in the h-th execution of work().
SetDefault(cache, p, h) ==
    IF cache[p] = 0 THEN [cache EXCEPT ![p] = h] ELSE cache

\* Lines 292-302: the CPU seconds since prev_time, once it is set, and the
\* memory of one process; prev is bench_record.prev_time, t is this_time.
ReadCpuAndMemory(acc, a, prev, t) ==
    [acc EXCEPT
       !.cpu_seconds = IF prev # None THEN @ + a.pct * (t - prev[1]) ELSE @,
       !.rss = @ + a.mem.rss,
       !.vms = @ + a.mem.vms,
       !.uss = @ + a.mem.uss,
       !.pss = @ + a.mem.pss]

\* Lines 303-310: the I/O counters of one process, until one is unsupported.
ReadIo(acc, a) ==
    IF ~acc.check_io THEN acc
    ELSE IF a.io = << >> THEN [acc EXCEPT !.check_io = FALSE]
    ELSE [acc EXCEPT !.io_in = @ + a.io[1], !.io_out = @ + a.io[2]]

\* Lines 291-310: the queries of one process, which answers a.
Query(acc, a, prev, t) ==
    IF a.kind # "ok" THEN [acc EXCEPT !.raised = a.kind]
    ELSE ReadIo(ReadCpuAndMemory(acc, a, prev, t), a)

\* One iteration of the loop over the process tree (lines 290-310).
LoopBody(acc, p, a, prev, t, h) ==
    IF acc.raised # "none" THEN acc
    ELSE Query([acc EXCEPT !.procs = SetDefault(acc.procs, p, h)], a, prev, t)

\* Mutant of ProcessLoop: an unset prev_time counts as time 0, so the first
\* tick adds CPU time.
ProcessLoopNoBaseline(cache, enum, ans, prev, t, h) ==
    LET F[i \in 0..Len(enum)] ==
            IF i = 0 THEN LoopStart(cache)
            ELSE LoopBody(F[i - 1], enum[i], ans[enum[i]],
                          IF prev = None THEN Some(0) ELSE prev, t, h)
    IN IF enum = << >>
       THEN [LoopStart(cache) EXCEPT !.raised = "psutil.Error"]
       ELSE F[Len(enum)]

\* The loop over chain((main,), children) at lines 289-310.
ProcessLoop(cache, enum, ans, prev, t, h) ==
    LET F[i \in 0..Len(enum)] ==
            IF i = 0 THEN LoopStart(cache)
            ELSE LoopBody(F[i - 1], enum[i], ans[enum[i]], prev, t, h)
    IN IF enum = << >>
       THEN [LoopStart(cache) EXCEPT !.raised = "psutil.Error"]
       ELSE F[Len(enum)]

\* Lines 329-334 for the GPU at position i, which answers gan.
GpuStep(q, gan, i) ==
    IF q.raised # "none" THEN q
    ELSE IF gan = << >> THEN [q EXCEPT !.raised = "IndexError"]
    ELSE [q EXCEPT
            !.rec.max_gpu_load[i] = Max(NumOrZero(@), gan[1]),
            !.rec.max_gpu_mem[i] = Max(NumOrZero(@), gan[2]),
            !.rec.gpu_load[i] = gan[1],
            !.rec.gpu_mem[i] = gan[2]]

\* Lines 327-334: the loop over self.gpus, which ends at the first IndexError.
GpuLoop(r, gans) ==
    LET F[i \in 0..Len(gans)] ==
            IF i = 0 THEN [rec |-> r, raised |-> "none"]
            ELSE GpuStep(F[i - 1], gans[i], i)
    IN F[Len(gans)]

\* Mutant of Commit: each maximum is overwritten with the current value.
CommitLatest(r, acc) ==
    [r EXCEPT
       !.max_rss = Some(ToMB(acc.rss)), !.max_vms = Some(ToMB(acc.vms)),
       !.max_uss = Some(ToMB(acc.uss)), !.max_pss = Some(ToMB(acc.pss)),
       !.rss = Some(ToMB(acc.rss)), !.vms = Some(ToMB(acc.vms)),
       !.uss = Some(ToMB(acc.uss)), !.pss = Some(ToMB(acc.pss)),
       !.io_in = IF acc.check_io THEN Some(ToMB(acc.io_in)) ELSE None,
       !.io_out = IF acc.check_io THEN Some(ToMB(acc.io_out)) ELSE None,
       !.cpu_seconds = @ + acc.cpu_seconds]

\* Lines 314-323 and 337-348: megabytes, the maxima, the instantaneous values,
\* I/O and CPU seconds.
Commit(r, acc) ==
    [r EXCEPT
       !.max_rss = Some(Max(OrZero(@), ToMB(acc.rss))),
       !.max_vms = Some(Max(OrZero(@), ToMB(acc.vms))),
       !.max_uss = Some(Max(OrZero(@), ToMB(acc.uss))),
       !.max_pss = Some(Max(OrZero(@), ToMB(acc.pss))),
       !.rss = Some(ToMB(acc.rss)), !.vms = Some(ToMB(acc.vms)),
       !.uss = Some(ToMB(acc.uss)), !.pss = Some(ToMB(acc.pss)),
       !.io_in = IF acc.check_io THEN Some(ToMB(acc.io_in)) ELSE None,
       !.io_out = IF acc.check_io THEN Some(ToMB(acc.io_out)) ELSE None,
       !.cpu_seconds = @ + acc.cpu_seconds]

\* What one run of _update_record leaves: the record, the cache, `raised` the
\* exception met ("none": the update ran to its end) and `escapes`, whether
\* that exception leaves _update_record: psutil.Error, which NoSuchProcess is
\* a kind of, is caught at line 324.
Outcome(r, acc, raised) ==
    [ rec |-> r, procs |-> acc.procs, raised |-> raised,
      escapes |-> raised \in {"AttributeError", "IndexError"},
      check_io |-> acc.check_io ]

\* Lines 327-348, with g what the loop over the GPUs left.
AfterGpus(g, acc) ==
    IF g.raised # "none" THEN Outcome(g.rec, acc, g.raised)
    ELSE Outcome(Commit(g.rec, acc), acc, "none")

\* Lines 311-348, with acc what the loop over the processes left and r the
\* record with this tick's running_time.
AfterLoop(r, acc, gans, t) ==
    IF acc.raised # "none" THEN Outcome(r, acc, acc.raised)
    ELSE AfterGpus(GpuLoop([r EXCEPT !.prev_time = Some(t)], gans), acc)

\* BenchmarkTimer._update_record at time t, the h-th one; st is start_time.
UpdateRecord(r, cache, st, t, enum, ans, gans, h) ==
    AfterLoop([r EXCEPT !.running_time = t - st],
              ProcessLoop(cache, enum, ans, r.prev_time, t, h), gans, t)

\* "{:.2f}".format(n / d) for n >= 0 and d > 0, as a number of hundredths.
Hundredths(n, d) == (200 * n + d) \div (2 * d)

\* BenchmarkRecord.to_tsv (lines 124-161): the columns of the line, or the
\* exception raised while they are computed.  The mean load is
\* 100.0 * cpu_seconds / running_time (lines 137 and 156), which in the
\* model's units is cpu_seconds / running_time.
to_tsv(r, rt) ==
    IF r.running_time = 0 THEN [raised |-> "ZeroDivisionError"]
    ELSE [ raised |-> "none",
           s |-> r.running_time,
           memory |-> IF rt THEN << r.rss, r.vms, r.uss, r.pss >>
                      ELSE << r.max_rss, r.max_vms, r.max_uss, r.max_pss >>,
           io |-> << r.io_in, r.io_out >>,
           mean_load |-> Hundredths(r.cpu_seconds, r.running_time),
           gpu |-> IF rt THEN << r.gpu_load, r.gpu_mem >>
                   ELSE << r.max_gpu_load, r.max_gpu_mem >> ]

\* The exception that leaves work(), given what _update_record left: work()
\* catches NoSuchProcess and AttributeError and nothing else, and with a
\* real-time sink it serializes the record (line 269).
WorkRaises(u) ==
    IF u.escapes /\ u.raised # "AttributeError" THEN u.raised
    ELSE IF rt_path THEN to_tsv(u.rec, TRUE).raised
    ELSE "none"

\* Lines 268-269: one line appended to the real-time sink, by the h-th tick.
WriteSink(u, out, h) ==
    [ rec |-> u.rec, procs |-> u.procs, raised |-> u.raised,
      check_io |-> u.check_io, exc |-> WorkRaises(u),
      sink |-> IF rt_path /\ WorkRaises(u) = "none" THEN Append(out, h) ELSE out ]

\* BenchmarkTimer.work at time t, the h-th execution: the update, then the
\* append to the real-time sink.
Work(r, cache, out, st, t, enum, ans, gans, h) ==
    WriteSink(UpdateRecord(r, cache, st, t, enum, ans, gans, h), out, h)

\* The memory of one more process that answered.
AddMemory(b, a) ==
    IF a.kind # "ok" THEN b
    ELSE [rss |-> b.rss + a.mem.rss, vms |-> b.vms + a.mem.vms,
          uss |-> b.uss + a.mem.uss, pss |-> b.pss + a.mem.pss]

InMB(b) ==
    [rss |-> ToMB(b.rss), vms |-> ToMB(b.vms),
     uss |-> ToMB(b.uss), pss |-> ToMB(b.pss)]

\* The sums, in megabytes, over the enumerated processes that answered.
AliveSums(enum, ans) ==
    LET F[i \in 0..Len(enum)] ==
            IF i = 0 THEN [rss |-> 0, vms |-> 0, uss |-> 0, pss |-> 0]
            ELSE AddMemory(F[i - 1], ans[enum[i]])
    IN InMB(F[Len(enum)])

\* One more cpu_percent() reading, while no process has raised.
AddPercent(b, a) ==
    IF b.open /\ a.kind = "ok" THEN [b EXCEPT !.sum = @ + a.pct]
    ELSE [b EXCEPT !.open = FALSE]

\* The sum of the cpu_percent() readings of the processes queried before the
\* loop ended: those ahead of the first one that raised.
QueriedPercent(enum, ans) ==
    LET F[i \in 0..Len(enum)] ==
            IF i = 0 THEN [sum |-> 0, open |-> TRUE]
            ELSE AddPercent(F[i - 1], ans[enum[i]])
    IN F[Len(enum)].sum

\* Some process of the tree had exited when queried, and every other one
\* (there is one) answered.
OnlyVanished(enum, ans) ==
    /\ \E i \in 1..Len(enum) : ans[enum[i]].kind = "NoSuchProcess"
    /\ \E i \in 1..Len(enum) : ans[enum[i]].kind = "ok"
    /\ \A i \in 1..Len(enum) : ans[enum[i]].kind \in {"ok", "NoSuchProcess"}

\* ------------------------------------------- ScheduledPeriodicTimer (cadence)
\* Mutant of NextDelay: the full interval is taken once the count reaches
\* the interval.
NextDelayAtThreshold(called, iv) ==
    IF called >= iv THEN 2 * iv ELSE BENCHMARK_INTERVAL_SHORT

\* Lines 208-211 and 218-221: the delay of the next DaemonTimer, in half
\* seconds.
NextDelay(called, iv) ==
    IF called > iv THEN 2 * iv ELSE BENCHMARK_INTERVAL_SHORT

\* DaemonTimer(delay, self._action) followed by start(): a thread waiting.
NewTimer(delay) ==
    [state |-> "waiting", finished |-> FALSE, interval |-> delay,
     due |-> now + delay]

\* What the history variables record of one execution of work().
TickLog(w, enum, ans) ==
    [ raised |-> w.raised, exc |-> w.exc, running_time |-> w.rec.running_time,
      pctSum |-> QueriedPercent(enum, ans),
      alive |-> IF OnlyVanished(enum, ans) THEN Some(AliveSums(enum, ans)) ELSE None ]

\* The sampler's state and the history after an execution of work() that
\* left w.
DoWork(w, enum, ans) ==
    /\ bench_record' = w.rec
    /\ procs' = w.procs
    /\ sink' = w.sink
    /\ workCount' = workCount + 1
    /\ lastTick' = TickLog(w, enum, ans)
    /\ ioUnsupported' = (ioUnsupported \/ ~w.check_io)

\* work() as the next execution, at the current time.
WorkNow(enum, ans, gans) ==
    Work(bench_record, procs, sink, start_time, now, enum, ans, gans, workCount + 1)

\* Lines 206-212 and 217-222: count the call, arm the next DaemonTimer; ts is
\* the list of timers the new one is added to.
Arm(ts) ==
    /\ times_called' = times_called + 1
    /\ timers' = Append(ts, NewTimer(NextDelay(times_called + 1, interval)))
    /\ timer' = Len(ts) + 1

\* ------------------------------------------------------------------ actions
cfg == << pid_opt, gpus, rt_path, interval >>

sampler == << bench_record, procs, sink, workCount, lastTick, ioUnsupported >>

scheduler == << times_called, timers, timer >>

locals == << wrapper_start, end_time >>

started == << start_time, starts >>

\* The state when benchmarked(benchmark_record=r, ...) is called.
Called(r) ==
    /\ now = 1
    /\ pid_opt \in BOOLEAN
    /\ gpus \in GpuConfigs
    /\ rt_path \in BOOLEAN
    /\ interval \in Intervals
    /\ pc = "call"
    /\ wrapper_start = 0
    /\ end_time = 0
    /\ start_time = 0
    /\ starts = 0
    /\ bench_record = r
    /\ times_called = 0
    /\ stopped = TRUE
    /\ timers = << >>
    /\ timer = 0
    /\ procs = [p \in Pids |-> 0]
    /\ sink = << >>
    /\ workCount = 0
    /\ lastTick = [raised |-> "none", exc |-> "none", running_time |-> 0,
                   pctSum |-> 0, alive |-> None]
    /\ ioUnsupported = FALSE

\* benchmark_record=None: line 368 creates the record.
Init == Called(NewRecord)

\* time passes
Advance ==
    /\ now < MaxTime
    /\ now' = now + 1
    /\ UNCHANGED << cfg, pc, locals, started, stopped, sampler, scheduler >>

\* Mutant of Enter: pid=False is taken for "no pid given", so the current
\* process is observed.
EnterObservingAlways ==
    /\ pc = "call"
    /\ pc' = "start"
    /\ wrapper_start' = now
    /\ bench_record' = InitGpuLists(bench_record, gpus)
    /\ sink' = IF rt_path THEN <<0>> ELSE sink
    /\ UNCHANGED << now, cfg, end_time, started, stopped, scheduler, procs,
                    workCount, lastTick, ioUnsupported >>

\* benchmarked() up to bench_thread.start() (lines 368-373); with pid=False it
\* yields at once.  BenchmarkTimer.__init__ pre-sizes the GPU lists and writes
\* the header to the sink.
Enter ==
    /\ pc = "call"
    /\ IF pid_opt
       THEN /\ pc' = "start"
            /\ wrapper_start' = now
            /\ bench_record' = InitGpuLists(bench_record, gpus)
            /\ sink' = IF rt_path THEN <<0>> ELSE sink
       ELSE /\ pc' = "body"
            /\ UNCHANGED << wrapper_start, bench_record, sink >>
    /\ UNCHANGED << now, cfg, end_time, started, stopped, scheduler, procs,
                    workCount, lastTick, ioUnsupported >>

\* start(), line 204: the start instant; work() is entered next.
StartBegin ==
    /\ pc = "start"
    /\ start_time' = now
    /\ starts' = starts + 1
    /\ pc' = "start_work"
    /\ UNCHANGED << now, cfg, locals, stopped, sampler, scheduler >>

\* start(), lines 205-212, once work() has left w: the first DaemonTimer, or
\* the exception leaves start() and benchmarked() too.
StartAfterWork(w, enum, ans) ==
    /\ DoWork(w, enum, ans)
    /\ IF w.exc = "none"
       THEN /\ Arm(timers)
            /\ stopped' = FALSE
            /\ pc' = "body"
       ELSE /\ pc' = "raised"
            /\ UNCHANGED << stopped, scheduler >>

\* Mutant of StartWork: start() only arms the first DaemonTimer and leaves
\* the first tick to it.
StartWorkDeferred ==
    /\ pc = "start_work"
    /\ Arm(timers)
    /\ stopped' = FALSE
    /\ pc' = "body"
    /\ UNCHANGED << now, cfg, locals, started, sampler >>

\* start(), lines 205-212: the first tick on the caller's thread, then the
\* first DaemonTimer.
StartWork ==
    /\ pc = "start_work"
    /\ \E enum \in Enumerations :
       \E ans \in AnswersOf(enum) :
       \E gans \in [1..Len(gpus) -> GpuAnswers] :
          StartAfterWork(WorkNow(enum, ans, gans), enum, ans)
    /\ UNCHANGED << now, cfg, locals, started >>

\* Mutant of TimerFire: the next DaemonTimer is armed when the timer fires,
\* before work() has run.
TimerFireArmsFirst(i) ==
    /\ timers[i].state = "waiting"
    /\ ~timers[i].finished
    /\ now >= timers[i].due
    /\ workCount < MaxTicks
    /\ timers' = Append([timers EXCEPT ![i].state = "running"],
                        NewTimer(NextDelay(times_called + 1, interval)))
    /\ timer' = Len(timers) + 1
    /\ UNCHANGED << now, cfg, pc, locals, started, stopped, sampler,
                    times_called >>

\* DaemonTimer.run, lines 180-182: the wait is over and the timer was not
\* cancelled, so _action is called.
TimerFire(i) ==
    /\ timers[i].state = "waiting"
    /\ ~timers[i].finished
    /\ now >= timers[i].due
    /\ workCount < MaxTicks
    /\ timers' = [timers EXCEPT ![i].state = "running"]
    /\ UNCHANGED << now, cfg, pc, locals, started, stopped, sampler,
                    times_called, timer >>

\* DaemonTimer.run, lines 180-183, for a cancelled timer: nothing is called.
TimerSkip(i) ==
    /\ timers[i].state = "waiting"
    /\ timers[i].finished
    /\ timers' = [timers EXCEPT ![i].state = "done"]
    /\ UNCHANGED << now, cfg, pc, locals, started, stopped, sampler,
                    times_called, timer >>

\* Line 183: the DaemonTimer's thread is over.
Finished(tm) == [tm EXCEPT !.state = "done", !.finished = TRUE]

\* _action, lines 217-222, once work() has left w: the next DaemonTimer, or
\* the exception ends the thread.
ActionAfterWork(i, w, enum, ans) ==
    /\ DoWork(w, enum, ans)
    /\ IF w.exc = "none"
       THEN Arm([timers EXCEPT ![i] = Finished(@)])
       ELSE /\ timers' = [timers EXCEPT ![i].state = "died"]
            /\ UNCHANGED << times_called, timer >>

\* _action, lines 216-222, then line 183: the tick, the next DaemonTimer, and
\* this one is finished.
TimerAction(i) ==
    /\ timers[i].state = "running"
    /\ \E enum \in Enumerations :
       \E ans \in AnswersOf(enum) :
       \E gans \in [1..Len(gpus) -> GpuAnswers] :
          ActionAfterWork(i, WorkNow(enum, ans, gans), enum, ans)
    /\ UNCHANGED << now, cfg, pc, locals, started, stopped >>

\* The body of the with statement returns.
BodyReturn ==
    /\ pc = "body"
    /\ pc' = IF pid_opt THEN "cancel" ELSE "done"
    /\ UNCHANGED << now, cfg, locals, started, stopped, sampler, scheduler >>

\* The body of the with statement raises: the exception is thrown into the
\* generator at its yield (line 375), which has no handler around it.
BodyRaise ==
    /\ pc = "body"
    /\ pc' = "failed"
    /\ UNCHANGED << now, cfg, locals, started, stopped, sampler, scheduler >>

\* ScheduledPeriodicTimer.cancel, lines 230-231 (benchmarked, line 376).
Cancel ==
    /\ pc = "cancel"
    /\ timers' = [timers EXCEPT ![timer].finished = TRUE]
    /\ stopped' = TRUE
    /\ pc' = "finalize"
    /\ UNCHANGED << now, cfg, locals, started, sampler, times_called, timer >>

\* benchmarked, line 377, right-hand side: time.time() is read.
ReadEndTime ==
    /\ pc = "finalize"
    /\ end_time' = now
    /\ pc' = "assign"
    /\ UNCHANGED << now, cfg, wrapper_start, started, stopped, sampler, scheduler >>

\* benchmarked, line 377, the store: the final running_time.  A timer's
\* thread may run between the read of the clock and this store.
Finalize ==
    /\ pc = "assign"
    /\ bench_record' = [bench_record EXCEPT !.running_time = end_time - wrapper_start]
    /\ pc' = "done"
    /\ UNCHANGED << now, cfg, locals, started, stopped, scheduler, procs,
                    sink, workCount, lastTick, ioUnsupported >>

\* Each DaemonTimer is a thread of its own.
TimerFires == \E i \in 1..Len(timers) : TimerFire(i)

TimerSkips == \E i \in 1..Len(timers) : TimerSkip(i)

TimerActions == \E i \in 1..Len(timers) : TimerAction(i)

Next ==
    \/ Advance
    \/ Enter
    \/ StartBegin
    \/ StartWork
    \/ TimerFires
    \/ TimerSkips
    \/ TimerActions
    \/ BodyReturn
    \/ BodyRaise
    \/ Cancel
    \/ ReadEndTime
    \/ Finalize

Spec == Init /\ [][Next]_vars

\* Each DaemonTimer is an operating-system thread and the clock goes on: a
\* timer that can fire, skip or finish its tick eventually does.
FairSpec ==
    /\ Spec
    /\ WF_vars(Advance)
    /\ WF_vars(TimerFires)
    /\ WF_vars(TimerSkips)
    /\ WF_vars(TimerActions)

\* benchmarked(benchmark_record=r) with r a record of an earlier observation.
InitReused == Called(SampledRecord)

SpecReused == InitReused /\ [][Next]_vars

\* A caller that holds the scheduler calls start() once more (line 202):
\* start() tests nothing before it takes the start instant.
StartAgain ==
    /\ pc = "body"
    /\ pid_opt
    /\ starts = 1
    /\ workCount < MaxTicks
    /\ pc' = "start"
    /\ UNCHANGED << now, cfg, locals, started, stopped, sampler, scheduler >>

\* The scheduler used directly, by a caller that may start it twice.
NextStartTwice == Next \/ StartAgain

\* That caller observes a process, with no GPU and no real-time sink.
InitStartTwice == Init /\ pid_opt /\ gpus = << >> /\ ~rt_path

SpecStartTwice == InitStartTwice /\ [][NextStartTwice]_vars

\* ================================================================== claims
\* A step that is one execution of work().
TickStep == workCount' # workCount

\* The with statement has been left.
Exited == pc \in {"done", "failed"}

\* cancel() has been called.
Cancelled == pc \in {"finalize", "assign", "done"}

\* The executions of work() in flight, on the caller's thread or a timer's.
InFlight ==
    (IF pc = "start_work" THEN 1 ELSE 0)
    + Cardinality({i \in 1..Len(timers) : timers[i].state = "running"})

\* C1: with process observation on, whenever the with statement is left, by
\* return or by an exception of the body, the sampler has been cancelled and
\* running_time is the time elapsed, at the exit, since benchmarked() was
\* entered.
C1_EveryExitCancelsAndFinalizes ==
    [][ (pid_opt /\ ~Exited /\ Exited')
        => /\ stopped'
           /\ timers'[timer'].finished
           /\ bench_record'.running_time = end_time' - wrapper_start' ]_vars

\* C2: once cancel() has been called no DaemonTimer is created and no timer
\* calls _action; a tick already in flight may complete.
C2_NoTickAfterCancel ==
    [][ Cancelled
        => /\ Len(timers') = Len(timers)
           /\ \A i \in 1..Len(timers) :
                 timers'[i].state = "running" => timers[i].state = "running" ]_vars

\* C3: once benchmarked() has assigned the final running_time and returned,
\* no field of the record is written again.
C3_RecordFrozenAfterExit ==
    [][ (pid_opt /\ pc = "done") => bench_record' = bench_record ]_vars

\* C4: at most one execution of work() is in flight at any instant, counting
\* the one start() runs on the caller's thread.
C4_TicksNeverOverlap == InFlight <= 1

\* C4 witness: a deferred tick is in flight after the synchronous one.
C4_Witness ==
    /\ workCount >= 1
    /\ \E i \in 1..Len(timers) : timers[i].state = "running"

\* A running maximum is at least the current value, when both are set.
Covers(m, x) == m = None \/ x = None \/ m[1] >= x[1]

\* The same for the per-GPU lists, position by position.
CoversList(m, x) ==
    m = None \/ x = None \/ \A i \in DOMAIN m : m[i] >= x[i]

\* A running maximum, once set, stays set and does not go down.
NotLowered(old, new) == old = None \/ (new # None /\ new[1] >= old[1])

NotLoweredList(old, new) ==
    old = None \/ (new # None /\ \A i \in DOMAIN old : new[i] >= old[i])

MaximaCoverCurrent ==
    /\ Covers(bench_record.max_rss, bench_record.rss)
    /\ Covers(bench_record.max_vms, bench_record.vms)
    /\ Covers(bench_record.max_uss, bench_record.uss)
    /\ Covers(bench_record.max_pss, bench_record.pss)
    /\ CoversList(bench_record.max_gpu_load, bench_record.gpu_load)
    /\ CoversList(bench_record.max_gpu_mem, bench_record.gpu_mem)

MaximaNotLowered ==
    /\ NotLowered(bench_record.max_rss, bench_record'.max_rss)
    /\ NotLowered(bench_record.max_vms, bench_record'.max_vms)
    /\ NotLowered(bench_record.max_uss, bench_record'.max_uss)
    /\ NotLowered(bench_record.max_pss, bench_record'.max_pss)
    /\ NotLoweredList(bench_record.max_gpu_load, bench_record'.max_gpu_load)
    /\ NotLoweredList(bench_record.max_gpu_mem, bench_record'.max_gpu_mem)

\* C5: for a record created empty, after every tick (abandoned ones included)
\* each running maximum is at least its current value when both are set, for
\* memory and for every GPU position, and no running maximum ever decreases.
C5_MaximaBoundCurrentAndGrow ==
    []MaximaCoverCurrent /\ [][MaximaNotLowered]_vars

\* C5 witness: two ticks, the second reading less memory and less GPU load
\* than the first, so the maxima are strictly above the current values.
C5_Witness ==
    /\ workCount = 2
    /\ bench_record.rss # None
    /\ bench_record.max_rss[1] > bench_record.rss[1]
    /\ bench_record.max_gpu_load # None
    /\ bench_record.max_gpu_load[1] > bench_record.gpu_load[1]
    /\ bench_record.gpu_load[1] >= 0

\* What a tick adds to cpu_seconds by the rule percent/100 * (t - prev_time),
\* summed over the processes it queried; nothing while prev_time is unset.
Contribution ==
    IF bench_record.prev_time = None THEN 0
    ELSE lastTick'.pctSum * (now - bench_record.prev_time[1])

C7_IoUnsupportedIsSticky ==
    ioUnsupported => (bench_record.io_in = None /\ bench_record.io_out = None)

\* C8: when some process had exited by the time it was queried and the others
\* answered, the tick raises nothing and leaves rss/vms/uss/pss equal to the
\* sums over the processes that answered.
C8_VanishedProcessAloneSkipped ==
    lastTick.alive # None
    => /\ lastTick.exc = "none"
       /\ bench_record.rss = Some(lastTick.alive[1].rss)
       /\ bench_record.vms = Some(lastTick.alive[1].vms)
       /\ bench_record.uss = Some(lastTick.alive[1].uss)
       /\ bench_record.pss = Some(lastTick.alive[1].pss)

\* C9: a tick that fails with a provider-level error leaves every field of
\* the record as it was before the tick.
C9_FailedTickLeavesRecord ==
    [][ (TickStep /\ lastTick'.raised = "psutil.Error")
        => bench_record' = bench_record ]_vars

\* C10: whenever a tick meets a provider failure (a vanished process, a
\* provider-level error, a failing GPU query), work() returns normally.
C10_ProviderFailureNeverRaised ==
    lastTick.raised \in (ProcFailures \cup {"IndexError"}) => lastTick.exc = "none"

\* C11: once benchmarked() has returned normally, the running_time the record
\* holds is at least the running_time the last tick wrote, however the
\* cancel and the final assignment interleave with a tick in flight.
C11_FinalRunningTimeCoversLastTick ==
    (pid_opt /\ pc = "done" /\ workCount >= 1)
    => bench_record.running_time >= lastTick.running_time

\* The step that ends a second call of start().
SecondStartEnds == starts = 2 /\ pc = "start_work" /\ pc' # pc

\* C12: a call of start() on a scheduler already started raises to its
\* caller; it runs no work() and creates no DaemonTimer.
C12_SecondStartFails ==
    [][ SecondStartEnds
        => /\ pc' = "raised"
           /\ workCount' = workCount
           /\ Len(timers') = Len(timers) ]_vars

\* C13: with a real-time sink, once the sampler is constructed the sink holds
\* the header followed by one data line per tick so far, in tick order,
\* abandoned ticks included.
C13_SinkHoldsHeaderAndOneLinePerTick ==
    (pid_opt /\ rt_path /\ pc # "call")
    => sink = [i \in 1..(workCount + 1) |-> i - 1]

\* C14: a record whose cpu_seconds is 0 serializes, in either mode, to a line
\* whose mean_load column is 0.00, also when its running_time is 0.
C14_ZeroCpuSerializes ==
    bench_record.cpu_seconds = 0
    => \A rt \in BOOLEAN :
          /\ to_tsv(bench_record, rt).raised = "none"
          /\ to_tsv(bench_record, rt).mean_load = 0

\* No sampler exists: no tick has run, no timer was created, the cache and
\* the sink are empty.
NoSampler ==
    /\ workCount = 0
    /\ timers = << >>
    /\ timer = 0
    /\ stopped
    /\ starts = 0
    /\ sink = << >>
    /\ \A p \in Pids : procs[p] = 0

\* C15: with pid=False the wrapper creates no sampler, runs no tick and starts
\* no timer, and no field of the record, running_time included, changes from
\* entry to exit of the scope.
C15_OptOutLeavesRecordAlone ==
    [](~pid_opt => NoSampler) /\ [][~pid_opt => bench_record' = bench_record]_vars

\* C15 witness: the scope has been entered and left with pid=False.
C15_Witness == ~pid_opt /\ pc = "done" /\ gpus # << >> /\ rt_path

\* The delay, in half seconds, of the timer armed after the n-th tick of a
\* scheduler whose interval is N seconds: 0.5 s for the first N, then N s.
DelayAfterTick(n, N) == IF n <= N THEN 1 ELSE 2 * N

\* A tick from which work() returned.
ReturnedTick == TickStep /\ lastTick'.exc = "none"

C17_FirstTickIsSynchronous ==
    /\ []((pc = "start_work" /\ starts = 1)
           => (workCount = 0 /\ stopped /\ timers = << >> /\ timer = 0))
    /\ [][ (pc = "start_work" /\ starts = 1 /\ pc' = "body")
           => /\ workCount' = 1
              /\ ~stopped'
              /\ Len(timers') = 1
              /\ timers'[1].state = "waiting" ]_vars

\* C17 witness: start() has returned and no deferred timer has fired yet.
C17_Witness ==
    /\ pc = "body"
    /\ pid_opt
    /\ workCount = 1
    /\ Len(timers) = 1
    /\ timers[1].state = "waiting"
    /\ lastTick.raised = "none"

\* C18: the first tick of an observation leaves cpu_seconds as it was,
\* whatever the provider reports and whether the record is new or was
\* sampled into by an earlier observation.
C18_FirstTickAddsNoCpu ==
    [][ (TickStep /\ workCount = 0)
        => bench_record'.cpu_seconds = bench_record.cpu_seconds ]_vars

\* C19: across every tick, abandoned ones included, a process id that is in
\* the handle cache stays in it with the handle first stored for it.
C19_HandleCacheOnlyGrows ==
    [][ \A p \in Pids : procs[p] # 0 => procs'[p] = procs[p] ]_vars

\* C19 witness: the second tick, abandoned because the child had exited, has
\* added the child's handle and kept the first tick's handle of the root.
C19_Witness ==
    /\ workCount = 2
    /\ procs[MainPid] = 1
    /\ procs[ChildPid] = 2
    /\ lastTick.raised = "NoSuchProcess"

\* Some DaemonTimer will still call _action or is inside it: one waiting and
\* not cancelled, or one running its tick.
ChainAlive ==
    \E i \in 1..Len(timers) :
       \/ timers[i].state = "running"
       \/ timers[i].state = "waiting" /\ ~timers[i].finished

\* C20: a sampler that has been started and not cancelled always has a tick
\* to come, also after ticks that met provider failures; without a live
\* timer no fair scheduling can bring another tick.
C20_ChainNeverDies == (pid_opt /\ ~stopped) => ChainAlive

====
